---- MODULE Spec2Model ----
(***************************************************************************)
(* event-soundness: audit of the event topics a contract emitted over a    *)
(* block range against the event signatures of an ABI (src/event.py).      *)
(*                                                                         *)
(* Strings are sequences of one-character strings, so that slicing,        *)
(* concatenation and prefix tests are computed as Python computes them.    *)
(* A JSON value that the code reads with .get() carries its JSON kind.     *)
(***************************************************************************)
EXTENDS Integers, Sequences, FiniteSets, TLC

VARIABLES
    pc,               \* position of main()
    connected,        \* answer of w3.is_connected()
    from_block,       \* resolved start block (argument or default)
    to_block,         \* resolved end block (argument or default)
    step,             \* args.step, any integer
    abi_file,         \* content of the --abi file
    expected_file,    \* content of the --expected-events file (or not given)
    json_flag,        \* args.json
    topic_map,        \* build_event_signature_map(abi)
    required_events,  \* None or the loaded list
    chunk_step,       \* the step argument fetch_logs hands to chunk_ranges
    cur,              \* chunk_ranges: cursor
    ranges,           \* chunk_ranges: list built so far
    idx,              \* fetch_logs: position in the list of chunks
    queries,          \* every get_logs call issued, in order, as (fromBlock, toBlock)
    answers,          \* what each successful get_logs call returned, in order
    all_logs,         \* fetch_logs: accumulator
    logs,             \* main: result of fetch_logs
    fetched,          \* fetch_logs has returned to main
    fetch_failed,     \* a get_logs call raised
    counts_by_topic,
    unknown_topics,
    counts_by_name,
    missing_required,
    out,              \* what was printed, as a sequence of tags
    exit_code,        \* process exit status; -1 while running
    crashed           \* the process ended by an uncaught exception

vars == <<pc, connected, from_block, to_block, step, abi_file, expected_file,
          json_flag, topic_map, required_events, chunk_step, cur, ranges, idx,
          queries, answers, all_logs, logs, fetched, fetch_failed,
          counts_by_topic, unknown_topics, counts_by_name, missing_required,
          out, exit_code, crashed>>

-----------------------------------------------------------------------------
(* Bounds *)

\* largest block number of a run of main
MaxBlock == 3
\* largest --step value of a run of main
MaxStep == 3
\* largest block number handed to chunk_ranges on its own
ChunkMaxBlock == 6
\* largest step handed to chunk_ranges on its own
ChunkMaxStep == 4
\* longest ABI handed to build_event_signature_map on its own
MaxAbi == 2
\* longest log list handed to the classifier on its own
MaxLogs == 3
\* hex digits of a digest (64 in the program; topic[:10] keeps "0x" and 8 of them)
DigestLen == 10

Max(a, b) == IF a >= b THEN a ELSE b
Min(a, b) == IF a <= b THEN a ELSE b

\* the chunking loop is cut off here; no run with a positive step comes near it
RangeCap == Max(MaxBlock, ChunkMaxBlock) + 3

-----------------------------------------------------------------------------
(* Strings *)

Hex == <<"0","1","2","3","4","5","6","7","8","9","a","b","c","d","e","f">>

\* a 0x-prefixed digest: its 8th digit is Hex[p], its last digit Hex[q]
Topic(p, q) ==
    <<"0","x">> \o [i \in 1..DigestLen |->
                      IF i = 8 THEN Hex[p]
                      ELSE IF i = DigestLen THEN Hex[q] ELSE "0"]

\* s[:n]
Slice(s, n) == SubSeq(s, 1, Min(n, Len(s)))

\* s.startswith(p)
StartsWith(s, p) == Len(s) >= Len(p) /\ SubSeq(s, 1, Len(p)) = p

RECURSIVE Join(_)
\* ",".join(parts)
Join(parts) ==
    IF parts = <<>> THEN <<>>
    ELSE IF Len(parts) = 1 THEN parts[1]
    ELSE parts[1] \o <<",">> \o Join(Tail(parts))

UnknownPrefix == <<"U","N","K","N","O","W","N","(">>
\* the single character U+2026
Ellipsis == "..."
PrefixLen == 10

\* f"UNKNOWN({topic[:10]}...)"
SyntheticLabel(topic) == UnknownPrefix \o Slice(topic, PrefixLen) \o <<Ellipsis, ")">>

-----------------------------------------------------------------------------
(* JSON values of an ABI *)

Str(s) == [kind |-> "str", chars |-> s]
Num(s) == [kind |-> "num", chars |-> s]
Missing == [kind |-> "missing", chars |-> <<>>]

Transfer == <<"T","r","a","n","s","f","e","r">>
Approval == <<"A","p","p","r","o","v","a","l">>
Address == <<"a","d","d","r","e","s","s">>
Uint256 == <<"u","i","n","t","2","5","6">>

\* an entry of "inputs": a dict that has a "type" key or not
Typed(t) == [hasType |-> TRUE, type |-> t]
Untyped == [hasType |-> FALSE, type |-> <<>>]

\* the "inputs" field: absent, a list, or another JSON value (null, a string)
NoInputs == [kind |-> "missing", items |-> <<>>]
InputList(l) == [kind |-> "list", items |-> l]
NotAList == [kind |-> "other", items |-> <<>>]

Def(t, n, i) == [type |-> t, name |-> n, inputs |-> i]

\* topics no event of the model hashes to; the first two share their first 10 characters
U1 == Topic(14, 2)
U2 == Topic(14, 3)
U3 == Topic(15, 2)

\* an event name that reads like the label of U1
LabelName == SyntheticLabel(U1)

\* the signatures the model can form, each with its own digest
NameTable == <<Transfer, Approval, <<"7">>, LabelName>>
TypesTable == << <<>>, <<Address>>, <<Address, Uint256>>, <<Uint256>> >>
SigOf(i, j) == NameTable[i] \o <<"(">> \o Join(TypesTable[j]) \o <<")">>

\* "0x" + keccak(text=signature).hex(): a fixed injective table
Keccak(signature) ==
    IF \E i \in 1..Len(NameTable), j \in 1..Len(TypesTable) : SigOf(i, j) = signature
    THEN LET ij == CHOOSE ij \in (1..Len(NameTable)) \X (1..Len(TypesTable)) :
                       SigOf(ij[1], ij[2]) = signature
         IN  Topic(ij[1], ij[2])
    ELSE Topic(16, 1)

-----------------------------------------------------------------------------
(* dicts *)

EmptyDict == [k \in {} |-> 0]
Get(d, k, default) == IF k \in DOMAIN d THEN d[k] ELSE default
Put(d, k, v) == [x \in (DOMAIN d) \cup {k} |-> IF x = k THEN v ELSE d[x]]

-----------------------------------------------------------------------------
(* build_event_signature_map *)

\* item.get("type") != "event"
NotEvent(item) == item.type # "event"

\* item.get("inputs", [])
ItemInputs(item) == IF item.inputs.kind = "missing" THEN InputList(<<>>) ELSE item.inputs

\* bool(name): None and "" are falsy, a non-empty string or a non-zero number is truthy
Truthy(name) == name.kind # "missing" /\ name.chars # <<>>

\* the name is not looked at
SkipItemNameUnchecked(name, inputs) == inputs.kind # "list"

\* not name or not isinstance(inputs, list)
SkipItem(name, inputs) == ~Truthy(name) \/ inputs.kind # "list"

\* i["type"] raises KeyError for an entry that has no "type"
TypeLookupRaises(inputs) == \E k \in 1..Len(inputs.items) : ~inputs.items[k].hasType

\* f"{name}({arg_types})"
Signature(name, inputs) ==
    name.chars \o <<"(">> \o Join([k \in 1..Len(inputs.items) |-> inputs.items[k].type])
               \o <<")">>

RECURSIVE BuildFrom(_, _)
BuildFrom(abi, acc) ==
    IF abi = <<>> THEN [raised |-> FALSE, map |-> acc]
    ELSE LET item == Head(abi)
             name == item.name
             inputs == ItemInputs(item)
         IN  IF NotEvent(item) THEN BuildFrom(Tail(abi), acc)
             ELSE IF SkipItem(name, inputs) THEN BuildFrom(Tail(abi), acc)
             ELSE IF TypeLookupRaises(inputs) THEN [raised |-> TRUE, map |-> EmptyDict]
             ELSE LET signature == Signature(name, inputs)
                      topic == Keccak(signature)
                  IN  BuildFrom(Tail(abi),
                                Put(acc, topic, [name |-> name, inputs |-> inputs,
                                                 signature |-> signature]))

build_event_signature_map(abi) == BuildFrom(abi, EmptyDict)

-----------------------------------------------------------------------------
(* chunk_ranges *)

\* a chunk one block too long
RngEndOffByOne(c, s, end) == Min(c + s, end)

\* min(cur + step - 1, end)
RngEnd(c, s, end) == Min(c + s - 1, end)

-----------------------------------------------------------------------------
(* the classifier of main *)

\* a log record; its topics are byte strings, written as their hex digits
Log(ts) == [topics |-> ts]
Bytes(topic) == SubSeq(topic, 3, Len(topic))

\* Web3.to_hex(t)
ToHex(b) == <<"0","x">> \o b

\* [Web3.to_hex(t) for t in lg.get("topics", [])]
HexTopics(lg) == [k \in 1..Len(lg.topics) |-> ToHex(lg.topics[k])]

\* one pass of the loop over logs: acc is (counts_by_topic, unknown_topics)
CountLog(acc, lg, tmap) ==
    LET topics == HexTopics(lg)
    IN  IF Len(topics) = 0 THEN acc
        ELSE LET t0 == topics[1]
                 byTopic == Put(acc[1], t0, Get(acc[1], t0, 0) + 1)
             IN  IF t0 \notin DOMAIN tmap
                 THEN <<byTopic, Put(acc[2], t0, Get(acc[2], t0, 0) + 1)>>
                 ELSE <<byTopic, acc[2]>>

RECURSIVE CountLogs(_, _, _)
CountLogs(acc, ls, tmap) ==
    IF ls = <<>> THEN acc ELSE CountLogs(CountLog(acc, Head(ls), tmap), Tail(ls), tmap)

\* topic_map.get(topic, {}).get("name", f"UNKNOWN({topic[:10]}...)")
NameOf(topic, tmap) ==
    IF topic \in DOMAIN tmap THEN tmap[topic].name ELSE Str(SyntheticLabel(topic))

\* the count of a name is overwritten, not added to
AddCountOverwrites(byName, name, cnt) == Put(byName, name, cnt)

\* counts_by_name[name] = counts_by_name.get(name, 0) + cnt
AddCount(byName, name, cnt) == Put(byName, name, Get(byName, name, 0) + cnt)

RECURSIVE NameCounts(_, _, _, _)
\* the loop over counts_by_topic.items(); the result does not depend on the order
NameCounts(byName, todo, byTopic, tmap) ==
    IF todo = {} THEN byName
    ELSE LET topic == CHOOSE t \in todo : TRUE
         IN  NameCounts(AddCount(byName, NameOf(topic, tmap), byTopic[topic]),
                        todo \ {topic}, byTopic, tmap)

\* n.startswith("UNKNOWN(") raises AttributeError on a key that is no string
StartsWithRaises(byName) == \E n \in DOMAIN byName : n.kind # "str"

\* set(n for n in counts_by_name.keys() if not n.startswith("UNKNOWN("))
PresentNames(byName) == {n \in DOMAIN byName : ~StartsWith(n.chars, UnknownPrefix)}

\* the loop over required_events
MissingOf(required, present) == SelectSeq(required, LAMBDA req : Str(req) \notin present)

\* sorted(counts_by_name.keys()) raises TypeError when it compares a number with a string
SortedRaises(byName) == \E m, n \in DOMAIN byName : m.kind # n.kind

\* bool(unknown_topics) or bool(missing_required)
Bad(unknown, missing) == unknown # EmptyDict \/ missing # <<>>

\* sys.exit(2 if bad else 0)
ExitStatus(bad) == IF bad THEN 2 ELSE 0

-----------------------------------------------------------------------------
(* main *)

NoRequired == [isNone |-> TRUE, items |-> <<>>]
Required(l) == [isNone |-> FALSE, items |-> l]

Emit(tag) == out' = Append(out, tag)

\* exit by sys.exit(1) after a printed message
Fail(tag) ==
    /\ out' = Append(out, tag)
    /\ exit_code' = 1
    /\ pc' = "exit"
    /\ crashed' = crashed

\* exit by an uncaught exception: the interpreter prints the traceback and exits with 1
Raise ==
    /\ exit_code' = 1
    /\ pc' = "exit"
    /\ crashed' = TRUE

\* the connectivity check is skipped
ConnectionNeverFails == FALSE

\* not w3.is_connected()
ConnectionFails == ~connected

Connect ==
    /\ pc = "start"
    /\ IF ConnectionFails
       THEN Fail("rpc_failed")
       ELSE /\ Emit("banner")
            /\ pc' = "range"
            /\ UNCHANGED <<exit_code, crashed>>
    /\ UNCHANGED <<connected, from_block, to_block, step, abi_file, expected_file,
                   json_flag, topic_map, required_events, chunk_step, cur, ranges,
                   idx, queries, answers, all_logs, logs, fetched, fetch_failed,
                   counts_by_topic, unknown_topics, counts_by_name, missing_required>>

\* from_block > to_block
InvalidRange == from_block > to_block

RangeCheck ==
    /\ pc = "range"
    /\ IF InvalidRange
       THEN Fail("invalid_range")
       ELSE /\ Emit("range")
            /\ pc' = "load_abi"
            /\ UNCHANGED <<exit_code, crashed>>
    /\ UNCHANGED <<connected, from_block, to_block, step, abi_file, expected_file,
                   json_flag, topic_map, required_events, chunk_step, cur, ranges,
                   idx, queries, answers, all_logs, logs, fetched, fetch_failed,
                   counts_by_topic, unknown_topics, counts_by_name, missing_required>>

\* json.load raises, or not isinstance(abi, list)
AbiLoadFails == abi_file.kind # "list"

LoadAbi ==
    /\ pc = "load_abi"
    /\ IF AbiLoadFails
       THEN Fail("abi_failed")
       ELSE /\ pc' = "build"
            /\ UNCHANGED <<out, exit_code, crashed>>
    /\ UNCHANGED <<connected, from_block, to_block, step, abi_file, expected_file,
                   json_flag, topic_map, required_events, chunk_step, cur, ranges,
                   idx, queries, answers, all_logs, logs, fetched, fetch_failed,
                   counts_by_topic, unknown_topics, counts_by_name, missing_required>>

BuildMap ==
    /\ pc = "build"
    /\ LET built == build_event_signature_map(abi_file.items)
       IN  IF built.raised
           THEN /\ Raise
                /\ UNCHANGED <<topic_map, out>>
           ELSE /\ topic_map' = built.map
                /\ out' = IF built.map = EmptyDict THEN Append(out, "no_events") ELSE out
                /\ pc' = "load_expected"
                /\ UNCHANGED <<exit_code, crashed>>
    /\ UNCHANGED <<connected, from_block, to_block, step, abi_file, expected_file,
                   json_flag, required_events, chunk_step, cur, ranges,
                   idx, queries, answers, all_logs, logs, fetched, fetch_failed,
                   counts_by_topic, unknown_topics, counts_by_name, missing_required>>

\* json.load raises, or the value is no list of strings
ExpectedLoadFails == expected_file.kind # "list"

LoadExpected ==
    /\ pc = "load_expected"
    /\ IF expected_file.kind = "absent"
       THEN /\ pc' = "fetch"
            /\ UNCHANGED <<required_events, out, exit_code, crashed>>
       ELSE IF ExpectedLoadFails
       THEN /\ Fail("expected_failed")
            /\ UNCHANGED required_events
       ELSE /\ required_events' = Required(expected_file.items)
            /\ pc' = "fetch"
            /\ UNCHANGED <<out, exit_code, crashed>>
    /\ UNCHANGED <<connected, from_block, to_block, step, abi_file, expected_file,
                   json_flag, topic_map, chunk_step, cur, ranges,
                   idx, queries, answers, all_logs, logs, fetched, fetch_failed,
                   counts_by_topic, unknown_topics, counts_by_name, missing_required>>

\* the step is handed on as given
CoerceStepMissing(s) == s

\* max(1, args.step)
CoerceStep(s) == Max(1, s)

\* main calls fetch_logs, which calls chunk_ranges(from_block, to_block, step)
FetchCall ==
    /\ pc = "fetch"
    /\ chunk_step' = CoerceStep(step)
    /\ cur' = from_block
    /\ ranges' = <<>>
    /\ all_logs' = <<>>
    /\ pc' = "chunk"
    /\ UNCHANGED <<connected, from_block, to_block, step, abi_file, expected_file,
                   json_flag, topic_map, required_events,
                   idx, queries, answers, logs, fetched, fetch_failed,
                   counts_by_topic, unknown_topics, counts_by_name, missing_required,
                   out, exit_code, crashed>>

\* one pass of the while loop of chunk_ranges, or its return
ChunkStep ==
    /\ pc = "chunk"
    /\ IF cur <= to_block
       THEN /\ Len(ranges) < RangeCap
            /\ ranges' = Append(ranges, <<cur, RngEnd(cur, chunk_step, to_block)>>)
            /\ cur' = RngEnd(cur, chunk_step, to_block) + 1
            /\ UNCHANGED <<pc, idx>>
       ELSE /\ pc' = "query"
            /\ idx' = 1
            /\ UNCHANGED <<cur, ranges>>
    /\ UNCHANGED <<connected, from_block, to_block, step, abi_file, expected_file,
                   json_flag, topic_map, required_events, chunk_step,
                   queries, answers, all_logs, logs, fetched, fetch_failed,
                   counts_by_topic, unknown_topics, counts_by_name, missing_required,
                   out, exit_code, crashed>>

\* the answer is put in front of the accumulator
ExtendInFront(acc, ls) == ls \o acc

\* all_logs.extend(logs)
Extend(acc, ls) == acc \o ls

\* the exception is swallowed and the loop goes on
QueryFailureSwallowed ==
    /\ fetch_failed' = TRUE
    /\ idx' = idx + 1
    /\ UNCHANGED <<pc, answers, all_logs, out, exit_code, crashed>>

\* get_logs raised: fetch_logs lets it through, main prints and exits
QueryFails ==
    /\ fetch_failed' = TRUE
    /\ Fail("fetch_failed")
    /\ UNCHANGED <<idx, answers, all_logs>>

\* what a get_logs call can return
LogTransfer == Log(<<Bytes(Topic(1, 3))>>)
LogApproval == Log(<<Bytes(Topic(2, 1))>>)
LogNoTopics == Log(<<>>)
LogUnknown == Log(<<Bytes(U1), Bytes(Topic(1, 3))>>)
LogSeven == Log(<<Bytes(Topic(3, 1))>>)
GetLogsAnswers == { <<>>, <<LogTransfer, LogNoTopics>>, <<LogUnknown, LogSeven>> }

\* one pass of the for loop of fetch_logs, or its return to main
QueryStep ==
    /\ pc = "query"
    /\ IF idx <= Len(ranges)
       THEN /\ queries' = Append(queries, ranges[idx])
            /\ \/ \E got \in GetLogsAnswers :
                     /\ all_logs' = Extend(all_logs, got)
                     /\ answers' = Append(answers, got)
                     /\ idx' = idx + 1
                     /\ UNCHANGED <<pc, fetch_failed, out, exit_code, crashed>>
               \/ QueryFails
            /\ UNCHANGED <<logs, fetched>>
       ELSE /\ logs' = all_logs
            /\ fetched' = TRUE
            /\ Emit("logs_fetched")
            /\ pc' = "classify"
            /\ UNCHANGED <<idx, queries, answers, all_logs, fetch_failed, exit_code,
                           crashed>>
    /\ UNCHANGED <<connected, from_block, to_block, step, abi_file, expected_file,
                   json_flag, topic_map, required_events, chunk_step, cur, ranges,
                   counts_by_topic, unknown_topics, counts_by_name, missing_required>>

Classify ==
    /\ pc = "classify"
    /\ LET counted == CountLogs(<<EmptyDict, EmptyDict>>, logs, topic_map)
       IN  /\ counts_by_topic' = counted[1]
           /\ unknown_topics' = counted[2]
    /\ pc' = "names"
    /\ UNCHANGED <<connected, from_block, to_block, step, abi_file, expected_file,
                   json_flag, topic_map, required_events, chunk_step, cur, ranges,
                   idx, queries, answers, all_logs, logs, fetched, fetch_failed,
                   counts_by_name, missing_required, out, exit_code, crashed>>

MapNames ==
    /\ pc = "names"
    /\ counts_by_name' =
         NameCounts(EmptyDict, DOMAIN counts_by_topic, counts_by_topic, topic_map)
    /\ pc' = "required"
    /\ UNCHANGED <<connected, from_block, to_block, step, abi_file, expected_file,
                   json_flag, topic_map, required_events, chunk_step, cur, ranges,
                   idx, queries, answers, all_logs, logs, fetched, fetch_failed,
                   counts_by_topic, unknown_topics, missing_required, out,
                   exit_code, crashed>>

RequiredCheck ==
    /\ pc = "required"
    /\ IF ~required_events.isNone /\ required_events.items # <<>>
       THEN IF StartsWithRaises(counts_by_name)
            THEN /\ Raise
                 /\ UNCHANGED missing_required
            ELSE /\ missing_required' =
                       MissingOf(required_events.items, PresentNames(counts_by_name))
                 /\ pc' = "output"
                 /\ UNCHANGED <<exit_code, crashed>>
       ELSE /\ pc' = "output"
            /\ UNCHANGED <<missing_required, exit_code, crashed>>
    /\ UNCHANGED <<connected, from_block, to_block, step, abi_file, expected_file,
                   json_flag, topic_map, required_events, chunk_step, cur, ranges,
                   idx, queries, answers, all_logs, logs, fetched, fetch_failed,
                   counts_by_topic, unknown_topics, counts_by_name, out>>

\* the lines printed after the counts
ReportTail ==
    <<"unknown">>
    \o (IF missing_required # <<>> THEN <<"missing">>
        ELSE IF ~required_events.isNone THEN <<"all_required">> ELSE <<>>)
    \o <<"elapsed">>
    \o (IF json_flag THEN <<"json">> ELSE <<>>)

Output ==
    /\ pc = "output"
    /\ IF SortedRaises(counts_by_name)
       THEN /\ out' = Append(out, "counts")
            /\ Raise
       ELSE /\ out' = Append(out, "counts") \o ReportTail
            /\ pc' = "policy"
            /\ UNCHANGED <<exit_code, crashed>>
    /\ UNCHANGED <<connected, from_block, to_block, step, abi_file, expected_file,
                   json_flag, topic_map, required_events, chunk_step, cur, ranges,
                   idx, queries, answers, all_logs, logs, fetched, fetch_failed,
                   counts_by_topic, unknown_topics, counts_by_name, missing_required>>

Exit ==
    /\ pc = "policy"
    /\ exit_code' = ExitStatus(Bad(unknown_topics, missing_required))
    /\ pc' = "exit"
    /\ UNCHANGED <<connected, from_block, to_block, step, abi_file, expected_file,
                   json_flag, topic_map, required_events, chunk_step, cur, ranges,
                   idx, queries, answers, all_logs, logs, fetched, fetch_failed,
                   counts_by_topic, unknown_topics, counts_by_name, missing_required,
                   out, crashed>>

-----------------------------------------------------------------------------
(* Inputs *)

SeqUpTo(S, n) == UNION {[1..k -> S] : k \in 0..n}

AbiFile(l) == [kind |-> "list", items |-> l]
Unparseable == [kind |-> "unparseable", items |-> <<>>]
NotList == [kind |-> "notlist", items |-> <<>>]
NotGiven == [kind |-> "absent", items |-> <<>>]
NotStrings == [kind |-> "notstrings", items |-> <<>>]

EvTransfer == Def("event", Str(Transfer), InputList(<<Typed(Address), Typed(Uint256)>>))
EvTransferUint == Def("event", Str(Transfer), InputList(<<Typed(Uint256)>>))
EvApproval == Def("event", Str(Approval), NoInputs)
EvLabel == Def("event", Str(LabelName), InputList(<<>>))
EvSeven == Def("event", Num(<<"7">>), InputList(<<>>))
EvUntyped == Def("event", Str(Transfer), InputList(<<Untyped>>))
FnTransfer == Def("function", Str(Transfer), InputList(<<Typed(Address)>>))

\* the state every run starts from, whatever the inputs
Fresh ==
    /\ topic_map = EmptyDict
    /\ required_events = NoRequired
    /\ chunk_step = 0
    /\ cur = 0
    /\ ranges = <<>>
    /\ idx = 0
    /\ queries = <<>>
    /\ answers = <<>>
    /\ all_logs = <<>>
    /\ logs = <<>>
    /\ fetched = FALSE
    /\ fetch_failed = FALSE
    /\ counts_by_topic = EmptyDict
    /\ unknown_topics = EmptyDict
    /\ counts_by_name = EmptyDict
    /\ missing_required = <<>>
    /\ out = <<>>
    /\ exit_code = -1
    /\ crashed = FALSE

MainAbiFiles ==
    { Unparseable, NotList, AbiFile(<<EvTransfer, EvApproval, FnTransfer>>),
      AbiFile(<<EvTransfer, EvSeven>>), AbiFile(<<EvUntyped>>) }

MainExpectedFiles ==
    { NotGiven, Unparseable, NotList, NotStrings, AbiFile(<<Transfer, Approval>>) }

Init ==
    /\ pc = "start"
    /\ connected \in BOOLEAN
    /\ from_block \in 0..MaxBlock
    /\ to_block \in 0..MaxBlock
    /\ step \in (0 - 1)..MaxStep
    /\ abi_file \in MainAbiFiles
    /\ expected_file \in MainExpectedFiles
    /\ json_flag \in BOOLEAN
    /\ Fresh

Next ==
    \/ Connect
    \/ RangeCheck
    \/ LoadAbi
    \/ BuildMap
    \/ LoadExpected
    \/ FetchCall
    \/ ChunkStep
    \/ QueryStep
    \/ Classify
    \/ MapNames
    \/ RequiredCheck
    \/ Output
    \/ Exit

Spec == Init /\ [][Next]_vars

\* the code runs to its end: no step of main waits on anything but a get_logs answer
FairSpec == Spec /\ WF_vars(Next)

-----------------------------------------------------------------------------
(* chunk_ranges on its own: any valid range, any positive step *)

InitChunk ==
    /\ pc = "chunk"
    /\ connected = TRUE
    /\ from_block \in 0..ChunkMaxBlock
    /\ to_block \in from_block..ChunkMaxBlock
    /\ step \in 1..ChunkMaxStep
    /\ abi_file = AbiFile(<<>>)
    /\ expected_file = NotGiven
    /\ json_flag = FALSE
    /\ topic_map = EmptyDict
    /\ required_events = NoRequired
    /\ chunk_step = step
    /\ cur = from_block
    /\ ranges = <<>>
    /\ idx = 0
    /\ queries = <<>>
    /\ answers = <<>>
    /\ all_logs = <<>>
    /\ logs = <<>>
    /\ fetched = FALSE
    /\ fetch_failed = FALSE
    /\ counts_by_topic = EmptyDict
    /\ unknown_topics = EmptyDict
    /\ counts_by_name = EmptyDict
    /\ missing_required = <<>>
    /\ out = <<>>
    /\ exit_code = -1
    /\ crashed = FALSE

NextChunk == ChunkStep

SpecChunk == InitChunk /\ [][NextChunk]_vars

-----------------------------------------------------------------------------
(* build_event_signature_map on its own: any short ABI *)

DefTypes == {"event", "function"}
DefNames == {Missing, Str(<<>>), Str(Transfer), Num(<<"7">>)}
DefInputs == {NoInputs, NotAList, InputList(<<>>), InputList(<<Typed(Address)>>),
              InputList(<<Untyped>>)}
DefUniverse == {Def(t, n, i) : t \in DefTypes, n \in DefNames, i \in DefInputs}

InitMap ==
    /\ pc = "build"
    /\ connected = TRUE
    /\ from_block = 0
    /\ to_block = 0
    /\ step = 1
    /\ abi_file \in {AbiFile(l) : l \in SeqUpTo(DefUniverse, MaxAbi)}
    /\ expected_file = NotGiven
    /\ json_flag = FALSE
    /\ Fresh

NextMap == BuildMap

SpecMap == InitMap /\ [][NextMap]_vars

-----------------------------------------------------------------------------
(* the classifier on its own: main from the return of fetch_logs on, for any *)
(* short list of logs, some signature maps and some required lists           *)

ClassifyAbis ==
    { <<>>,
      <<EvTransfer, EvApproval>>,
      <<EvTransfer, EvTransferUint>>,
      <<EvTransfer, EvLabel>>,
      <<EvTransfer, EvSeven>> }

ClassifyExpected ==
    { NotGiven, AbiFile(<<>>), AbiFile(<<Transfer>>), AbiFile(<<Approval, Transfer>>),
      AbiFile(<<Transfer, LabelName, Approval>>) }

LogKinds ==
    { LogNoTopics, LogTransfer, LogUnknown, LogSeven,
      Log(<<Bytes(Topic(1, 4))>>),     \* Transfer(uint256)
      Log(<<Bytes(Topic(4, 1))>>),     \* the event named like a label
      Log(<<Bytes(U2)>>) }

InitClassify ==
    /\ pc = "classify"
    /\ connected = TRUE
    /\ from_block = 0
    /\ to_block = 0
    /\ step = 1
    /\ abi_file \in {AbiFile(l) : l \in ClassifyAbis}
    /\ expected_file \in ClassifyExpected
    /\ json_flag = TRUE
    /\ topic_map = build_event_signature_map(abi_file.items).map
    /\ required_events =
         IF expected_file.kind = "absent" THEN NoRequired
         ELSE Required(expected_file.items)
    /\ chunk_step = 1
    /\ cur = 0
    /\ ranges = <<>>
    /\ idx = 0
    /\ queries = <<>>
    /\ answers = <<>>
    /\ all_logs = <<>>
    /\ logs \in SeqUpTo(LogKinds, MaxLogs)
    /\ fetched = TRUE
    /\ fetch_failed = FALSE
    /\ counts_by_topic = EmptyDict
    /\ unknown_topics = EmptyDict
    /\ counts_by_name = EmptyDict
    /\ missing_required = <<>>
    /\ out = <<>>
    /\ exit_code = -1
    /\ crashed = FALSE

NextClassify ==
    \/ Classify
    \/ MapNames
    \/ RequiredCheck
    \/ Output
    \/ Exit

SpecClassify == InitClassify /\ [][NextClassify]_vars

-----------------------------------------------------------------------------
(* Helpers of the properties *)

CeilDiv(n, d) == (n + d - 1) \div d

RECURSIVE SumDict(_)
SumDict(d) ==
    IF DOMAIN d = {} THEN 0
    ELSE LET k == CHOOSE k \in DOMAIN d : TRUE
         IN  d[k] + SumDict([x \in (DOMAIN d) \ {k} |-> d[x]])

RECURSIVE Flatten(_)
Flatten(ll) == IF ll = <<>> THEN <<>> ELSE Head(ll) \o Flatten(Tail(ll))

HasTopics(lg) == lg.topics # <<>>
FirstTopic(lg) == ToHex(lg.topics[1])

\* the number of logs whose first topic is t
Occurrences(ls, t) ==
    Cardinality({i \in 1..Len(ls) : HasTopics(ls[i]) /\ FirstTopic(ls[i]) = t})

\* sub-ranges rs split [a, b] into consecutive pieces of at most s blocks
Partitions(rs, a, b, s) ==
    /\ Len(rs) = CeilDiv(b - a + 1, s)
    /\ Len(rs) >= 1
    /\ rs[1][1] = a
    /\ rs[Len(rs)][2] = b
    /\ \A i \in 1..Len(rs) :
         /\ rs[i][1] <= rs[i][2]
         /\ rs[i][2] - rs[i][1] + 1 <= s
    /\ \A i \in 1..(Len(rs) - 1) : rs[i + 1][1] = rs[i][2] + 1
    /\ \A blk \in a..b :
         Cardinality({i \in 1..Len(rs) : rs[i][1] <= blk /\ blk <= rs[i][2]}) = 1
    /\ \A i \in 1..Len(rs) : a <= rs[i][1] /\ rs[i][2] <= b

ReportTags == {"logs_fetched", "counts", "unknown", "missing", "all_required",
               "elapsed", "json"}
FailureTags == {"rpc_failed", "invalid_range", "abi_failed", "expected_failed",
                "fetch_failed"}
Printed(tags) == {i \in 1..Len(out) : out[i] \in tags}

\* the classifier's three dicts have been built
Named == fetched /\ pc \in {"required", "output", "policy", "exit"}

-----------------------------------------------------------------------------
(* C1: for 0 <= start <= end and step >= 1, chunk_ranges returns ascending,  *)
(* contiguous, non-overlapping sub-ranges that cover exactly [start, end],   *)
(* each of at most step blocks, ceil((end - start + 1) / step) of them.      *)
C1_ChunkRangesPartition ==
    (pc = "query" /\ 0 <= from_block /\ from_block <= to_block /\ chunk_step >= 1)
        => Partitions(ranges, from_block, to_block, chunk_step)

\* three chunks or more, the last one shorter than the step
C1_Witness ==
    /\ pc = "query"
    /\ Len(ranges) >= 3
    /\ ranges[Len(ranges)][2] - ranges[Len(ranges)][1] + 1 < chunk_step

-----------------------------------------------------------------------------
(* C2: once fetch_logs has returned, main exits with 0 exactly when          *)
(* unknown_topics and missing_required are both empty, with 2 otherwise,     *)
(* and never with 1.                                                         *)
C2_ExitCodeAfterFetch ==
    (fetched /\ pc = "exit")
        => /\ exit_code \in {0, 2}
           /\ exit_code = 0 <=> (unknown_topics = EmptyDict /\ missing_required = <<>>)

-----------------------------------------------------------------------------
(* C3: a log whose first topic is no key of the signature map is counted in  *)
(* unknown_topics and, in counts_by_name, only under its UNKNOWN label and   *)
(* never under the name of a declared event; a log whose first topic is a    *)
(* key never appears in unknown_topics.                                      *)
DeclaredNames == {topic_map[t].name : t \in DOMAIN topic_map}

\* the logs that resolve to the declared name n
ResolvedTo(n) ==
    {i \in 1..Len(logs) : /\ HasTopics(logs[i])
                          /\ FirstTopic(logs[i]) \in DOMAIN topic_map
                          /\ topic_map[FirstTopic(logs[i])].name = n}

C3_UnknownOnlyUnderLabel ==
    Named =>
        /\ \A i \in 1..Len(logs) :
             (HasTopics(logs[i]) /\ FirstTopic(logs[i]) \notin DOMAIN topic_map)
                 => /\ FirstTopic(logs[i]) \in DOMAIN unknown_topics
                    /\ unknown_topics[FirstTopic(logs[i])]
                           = Occurrences(logs, FirstTopic(logs[i]))
                    /\ Str(SyntheticLabel(FirstTopic(logs[i]))) \in DOMAIN counts_by_name
        /\ \A n \in DeclaredNames :
             Get(counts_by_name, n, 0) = Cardinality(ResolvedTo(n))
        /\ (DOMAIN unknown_topics) \cap (DOMAIN topic_map) = {}

-----------------------------------------------------------------------------
(* C4: with a required list, missing_required is the required names, in the  *)
(* order of the list, to which no fetched log resolves through the signature *)
(* map.                                                                      *)
C4_MissingRequired ==
    (fetched /\ pc \in {"output", "policy"} /\ ~required_events.isNone)
        => missing_required
              = SelectSeq(required_events.items, LAMBDA req : ResolvedTo(Str(req)) = {})

-----------------------------------------------------------------------------
(* C5: when a chunk query fails, no later chunk is queried, the failed query *)
(* is not issued again, the logs fetched so far are dropped, nothing of the  *)
(* report is printed and the run exits with 1.                               *)
C5_FetchFailureIsFatal ==
    fetch_failed =>
        /\ pc = "exit"
        /\ exit_code = 1
        /\ ~fetched
        /\ logs = <<>>
        /\ counts_by_topic = EmptyDict
        /\ unknown_topics = EmptyDict
        /\ counts_by_name = EmptyDict
        /\ missing_required = <<>>
        /\ Printed(ReportTags) = {}
        /\ out[Len(out)] = "fetch_failed"
        /\ Len(queries) = Len(answers) + 1
        /\ Len(queries) <= Len(ranges)
        /\ queries = SubSeq(ranges, 1, Len(queries))
        /\ \A i, j \in 1..Len(queries) : i # j => queries[i] # queries[j]

\* a query fails after one that returned logs, with a chunk still to come
C5_Witness ==
    /\ fetch_failed
    /\ Len(answers) >= 1
    /\ answers[1] # <<>>
    /\ Len(queries) < Len(ranges)

-----------------------------------------------------------------------------
(* C6: a failed connectivity check, an invalid range, an ABI file that does  *)
(* not load and an expected-events file that does not load each end the run  *)
(* at once with exit code 1, no get_logs query and no report; a get_logs     *)
(* query is only issued when all four checks have passed.                    *)
SetupOk ==
    /\ connected
    /\ from_block <= to_block
    /\ abi_file.kind = "list"
    /\ expected_file.kind \in {"absent", "list"}

C6_SetupErrorsAreFatal ==
    /\ queries # <<>> => SetupOk
    /\ ~SetupOk =>
         /\ pc \in {"start", "range", "load_abi", "build", "load_expected", "exit"}
         /\ queries = <<>>
         /\ ~fetched
         /\ Printed(ReportTags) = {}
    /\ (~SetupOk /\ pc = "exit") =>
         /\ exit_code = 1
         /\ ~crashed => (Cardinality(Printed(FailureTags)) = 1
                         /\ out[Len(out)] \in FailureTags)

\* the last of the four checks is the one that fails
C6_Witness ==
    /\ pc = "exit"
    /\ connected
    /\ from_block <= to_block
    /\ abi_file.kind = "list"
    /\ expected_file.kind = "notlist"
    /\ topic_map # EmptyDict

-----------------------------------------------------------------------------
(* C7: the key set of the map is the set of topic hashes of the canonical    *)
(* signatures of the definitions of event kind with a non-empty name and a   *)
(* list-typed inputs field; every other definition contributes no key.       *)
Built == pc = "load_expected"

TopicOfDef(d) == Keccak(Signature(d.name, InputList(d.inputs.items)))

Qualifying ==
    {k \in 1..Len(abi_file.items) :
       /\ abi_file.items[k].type = "event"
       /\ Truthy(abi_file.items[k].name)
       /\ abi_file.items[k].inputs.kind \in {"missing", "list"}}

-----------------------------------------------------------------------------
(* C8: when no query fails, fetch_logs issues one get_logs query per chunk   *)
(* of chunk_ranges(from_block, to_block, step), in ascending order, and      *)
(* returns the answers concatenated in that order, so that every block of    *)
(* the range is queried exactly once.                                        *)
C8_OneQueryPerChunkInOrder ==
    /\ (pc = "query" /\ ~fetch_failed) =>
         /\ queries = SubSeq(ranges, 1, idx - 1)
         /\ Len(answers) = Len(queries)
         /\ all_logs = Flatten(answers)
    /\ fetched =>
         /\ queries = ranges
         /\ Partitions(queries, from_block, to_block, chunk_step)
         /\ \A i \in 1..(Len(queries) - 1) : queries[i][1] < queries[i + 1][1]
         /\ Len(answers) = Len(queries)
         /\ logs = Flatten(answers)

\* two chunks whose answers differ, each with logs of its own
C8_Witness ==
    /\ fetched
    /\ Len(queries) >= 2
    /\ answers[1] = <<LogTransfer, LogNoTopics>>
    /\ answers[2] = <<LogUnknown, LogSeven>>

-----------------------------------------------------------------------------
(* C9: main hands max(1, step) to fetch_logs, whatever --step is, so that    *)
(* chunk_ranges never runs with a non-positive step, the fetch issues at     *)
(* most to_block - from_block + 1 queries, and the run ends.                 *)
C9_Bounded ==
    /\ pc \in {"chunk", "query"} => (chunk_step >= 1 /\ chunk_step = Max(1, step))
    /\ Len(ranges) <= Max(0, to_block - from_block + 1)
    /\ Len(queries) <= Max(0, to_block - from_block + 1)

C9_StepCoercedAndFetchTerminates == []C9_Bounded /\ <>(pc = "exit")

\* a run with a non-positive --step that queried every block on its own and ended
C9_Witness ==
    /\ pc = "exit"
    /\ fetched
    /\ step <= 0
    /\ to_block > from_block
    /\ Len(queries) = to_block - from_block + 1

-----------------------------------------------------------------------------
(* C10: every log with a topic is counted once and a log without topics      *)
(* nowhere: counts_by_topic and counts_by_name both sum to the number of     *)
(* logs with a topic, and unknown_topics agrees with counts_by_topic on      *)
(* every topic that is no key of the signature map.                          *)
C10_CountConservation ==
    Named =>
        LET withTopics == Cardinality({i \in 1..Len(logs) : HasTopics(logs[i])})
        IN  /\ SumDict(counts_by_topic) = withTopics
            /\ SumDict(counts_by_name) = withTopics
            /\ \A t \in DOMAIN counts_by_topic :
                 /\ counts_by_topic[t] = Occurrences(logs, t)
                 /\ counts_by_topic[t] >= 1
                 /\ t \notin DOMAIN topic_map
                      => (t \in DOMAIN unknown_topics
                          /\ unknown_topics[t] = counts_by_topic[t])
            /\ DOMAIN unknown_topics = (DOMAIN counts_by_topic) \ (DOMAIN topic_map)

\* two counted topics that resolve to one name, and a log without topics
C10_Witness ==
    /\ Named
    /\ \E t1, t2 \in DOMAIN counts_by_topic :
         /\ t1 # t2
         /\ t1 \in DOMAIN topic_map
         /\ t2 \in DOMAIN topic_map
         /\ topic_map[t1].name = topic_map[t2].name
    /\ \E i \in 1..Len(logs) : ~HasTopics(logs[i])

====
